---- MODULE Spec2Model ----
(***************************************************************************)
(* Model of the MohrCircleVisualization component (src/src/main.tsx).      *)
(*                                                                         *)
(* Units.  Times are integer milliseconds.  Angles are integers in units   *)
(* of 2*pi/90000 rad, so that 2*pi, ANGLE_PER_MS (3 units per ms) and the  *)
(* seed angle -2.38 deg (-595 units) are all exact.  Strains are integers  *)
(* in units of 0.001 um/m.  Math.sqrt, Math.cos and Math.sin are           *)
(* fixed-point approximations to 0.001.  Arithmetic is exact where the     *)
(* code uses IEEE doubles; rounding of doubles is not modelled.            *)
(***************************************************************************)
EXTENDS Integers, Sequences, FiniteSets, TLC

(* ------------------------------ bounds --------------------------------- *)

\* the host clock (ms since the time origin) when the component is rendered
MountTime == 120
\* the host clock stops here
MaxTime == 31000
\* number of frame callbacks the host runs in one behaviour of Spec
MaxFrames == 3
\* number of frame callbacks the host runs in one behaviour of SpecSweep
SweepFrames == 6

\* time between two repaints, and time passing while no frame is pending
FrameDeltas == {100, 15000, 30000}
IdleDeltas == {20000}

\* texts typed into a strain field, as character sequences
EditTexts == { <<"a", "b", "c">>, <<"3", ".", "5">> }
Fields == {"normalX", "normalY", "shearXY"}

\* offsetWidth / offsetHeight of the container
ContainerSizes == { [w |-> 1000, h |-> 800], [w |-> 400, h |-> 900] }

(* ----------------------- constants of the program ---------------------- *)

CIRCLE_DURATION == 30000
\* 2 * Math.PI in angle units
TwoPi == 90000
\* the rate of a 45 s revolution
ANGLE_PER_MS_Slow == TwoPi \div (CIRCLE_DURATION + CIRCLE_DURATION \div 2)

ANGLE_PER_MS == TwoPi \div CIRCLE_DURATION
\* -2.38 * Math.PI / 180
InitialAngle == (0 - 238 * (TwoPi \div 1000)) \div 36
InitialStrains == [normalX |-> 2000, normalY |-> 200, shearXY |-> 905]

(* ------------------------- arithmetic of the host ---------------------- *)

\* JavaScript's % : the result has the sign of the dividend
JSRem(a, m) == IF a >= 0 THEN a % m ELSE 0 - ((0 - a) % m)

Min(a, b) == IF a <= b THEN a ELSE b

RECURSIVE SqrtSearch(_, _, _)
SqrtSearch(n, lo, hi) ==
  IF lo >= hi THEN lo
  ELSE LET mid == (lo + hi + 1) \div 2
       IN IF mid * mid <= n THEN SqrtSearch(n, mid, hi)
                            ELSE SqrtSearch(n, lo, mid - 1)

\* Math.sqrt on a value in units of 0.001^2, result in units of 0.001
MathSqrt(n) == SqrtSearch(n, 0, 40000)

\* sin on [0, pi] (Bhaskara's rational approximation), result in 0.001
SinHalfTurn(x) ==
  LET half == TwoPi \div 2
      p == (x * (half - x)) \div 10000
      hsq == (half \div 100) * (half \div 100)
  IN (16000 * p) \div (5 * hsq - 4 * p)

\* Math.sin, result in units of 0.001
MathSin(a) ==
  LET r == a % TwoPi
      half == TwoPi \div 2
  IN IF r <= half THEN SinHalfTurn(r) ELSE 0 - SinHalfTurn(r - half)

\* Math.cos, result in units of 0.001
MathCos(a) == MathSin(a + TwoPi \div 4)

\* product of two values in units of 0.001, rounded toward zero
MulMilli(a, b) ==
  LET p == a * b
  IN IF p >= 0 THEN p \div 1000 ELSE 0 - ((0 - p) \div 1000)

(* ------------------------------ parseFloat ----------------------------- *)

DigitChars == {"0", "1", "2", "3", "4", "5", "6", "7", "8", "9"}
DigitVal(c) ==
  CASE c = "0" -> 0 [] c = "1" -> 1 [] c = "2" -> 2 [] c = "3" -> 3
    [] c = "4" -> 4 [] c = "5" -> 5 [] c = "6" -> 6 [] c = "7" -> 7
    [] c = "8" -> 8 [] c = "9" -> 9

RECURSIVE SkipSpace(_)
SkipSpace(s) == IF s # <<>> /\ Head(s) = " " THEN SkipSpace(Tail(s)) ELSE s

\* the longest prefix of s made of digits
RECURSIVE DigitPrefix(_)
DigitPrefix(s) ==
  IF s # <<>> /\ Head(s) \in DigitChars
  THEN <<Head(s)>> \o DigitPrefix(Tail(s))
  ELSE <<>>

RECURSIVE DigitsValue(_, _)
DigitsValue(ds, acc) ==
  IF ds = <<>> THEN acc ELSE DigitsValue(Tail(ds), 10 * acc + DigitVal(Head(ds)))

\* the first three fraction digits as thousandths
FractionMilli(ds) ==
  LET d(i) == IF i <= Len(ds) THEN DigitVal(ds[i]) ELSE 0
  IN 100 * d(1) + 10 * d(2) + d(3)

\* parseFloat of a text without exponent part: [nan, v], v in units of 0.001
ParseFloat(text) ==
  LET s0 == SkipSpace(text)
      signed == s0 # <<>> /\ Head(s0) \in {"-", "+"}
      sign == IF signed /\ Head(s0) = "-" THEN 0 - 1 ELSE 1
      s1 == IF signed THEN Tail(s0) ELSE s0
      ip == DigitPrefix(s1)
      s2 == SubSeq(s1, Len(ip) + 1, Len(s1))
      dotted == s2 # <<>> /\ Head(s2) = "."
      fp == IF dotted THEN DigitPrefix(Tail(s2)) ELSE <<>>
  IN IF ip = <<>> /\ fp = <<>>
     THEN [nan |-> TRUE, v |-> 0]
     ELSE [nan |-> FALSE,
           v |-> sign * (1000 * DigitsValue(ip, 0) + FractionMilli(fp))]

(* --------------------------- pure computations ------------------------- *)

\* the radius taken from the sum of the normal strains
calculateMohrCircle_SumSlip(s) ==
  LET half == (s.normalX + s.normalY) \div 2
  IN [center |-> (s.normalX + s.normalY) \div 2,
      radius |-> MathSqrt(half * half + s.shearXY * s.shearXY)]

calculateMohrCircle(s) ==
  LET half == (s.normalX - s.normalY) \div 2
  IN [center |-> (s.normalX + s.normalY) \div 2,
      radius |-> MathSqrt(half * half + s.shearXY * s.shearXY)]

calculateCurrentStrains(s, a) ==
  LET c == calculateMohrCircle(s)
  IN [normal |-> c.center + MulMilli(c.radius, MathCos(a)),
      shear |-> MulMilli(c.radius, MathSin(a))]

\* canvas.width / canvas.height set by updateCanvasSize
CanvasSize(cont) == [width |-> (cont.w * 9) \div 10, height |-> (cont.h * 6) \div 10]

\* what drawMohrCircle puts on the surface, in units of 0.001 px
Picture(by, s, a, cv) ==
  LET scale == Min(cv.width, cv.height) \div 4
      c == calculateMohrCircle(s)
  IN [by |-> by,
      circleX |-> c.center * scale,
      circleR |-> c.radius * scale,
      pointX |-> c.center * scale + MulMilli(c.radius * scale, MathCos(a)),
      pointY |-> MulMilli(c.radius * scale, MathSin(a))]

(* -------------------------------- state -------------------------------- *)

VARIABLES
  phase,            \* "rendered", "strict1", "strict2", "mounted", "unmounted"
  isAnimating, strains, currentStrains, angle,
  animationRef, lastUpdateTime,
  container, canvas, drawn,
  resizeListeners,  \* the closures registered for 'resize': [strains, angle]
  pending,          \* frame callbacks requested and not yet run or cancelled
  now,              \* the host clock
  frames,           \* frame callbacks run so far
  period,           \* the playing period since the last request by the effect
  idled,            \* time has passed since the last transition to Paused
  event             \* the last change event: [field, text]

vars == <<phase, isAnimating, strains, currentStrains, angle,
          animationRef, lastUpdateTime, container, canvas, drawn,
          resizeListeners, pending, now, frames, period, idled, event>>

\* the surface before the first drawMohrCircle
NothingDrawn == [by |-> "none", circleX |-> 0, circleR |-> 0, pointX |-> 0, pointY |-> 0]

\* no change event has been handled yet
NoEvent == [field |-> "none", text |-> <<>>]

\* the playing period that starts when the effect requests a frame
NewPeriod(a) == [angle |-> a, first |-> 0, last |-> 0, frames |-> 0]

Init ==
  /\ phase = "rendered"
  /\ isAnimating = TRUE
  /\ strains = InitialStrains
  /\ currentStrains = [normal |-> 0, shear |-> 0]
  /\ angle = InitialAngle
  /\ animationRef = 0
  /\ lastUpdateTime = 0
  /\ container \in ContainerSizes
  /\ canvas = [width |-> 300, height |-> 150]
  /\ drawn = NothingDrawn
  /\ resizeListeners = {}
  /\ pending = {}
  /\ now = MountTime
  /\ frames = 0
  /\ period = NewPeriod(InitialAngle)
  /\ idled = FALSE
  /\ event = NoEvent

(* ------------------------- frame scheduling ---------------------------- *)

\* the handle returned by requestAnimationFrame: one that is not pending
\* (handles are only compared with each other, so the least one is taken)
NewHandle(pend) ==
  LET used == {f.id : f \in pend}
  IN CHOOSE h \in 1..(Cardinality(used) + 1) :
       /\ h \notin used
       /\ \A k \in 1..(h - 1) : k \in used

\* requestAnimationFrame(animate), animate closed over isAnimating = anim
RequestAnimationFrame(pend, anim) ==
  pend \cup { [id |-> NewHandle(pend), isAnimating |-> anim] }

\* a cancel that cancels nothing
CancelAnimationFrame_Noop(pend, h) == pend

CancelAnimationFrame(pend, h) == { f \in pend : f.id # h }


(* ------------------------------ effects -------------------------------- *)

\* the effect without the reset of lastUpdateTimeRef
AnimatingEffect_NoReset(anim, pend, ref, last) ==
  IF anim
  THEN [pending |-> RequestAnimationFrame(pend, anim),
        animationRef |-> NewHandle(pend),
        lastUpdateTime |-> last]
  ELSE [pending |-> CancelAnimationFrame(pend, ref),
        animationRef |-> ref,
        lastUpdateTime |-> last]

\* useEffect[isAnimating], run after its own cleanup, for the render with
\* isAnimating = anim
AnimatingEffect(anim, pend, ref, last) ==
  IF anim
  THEN [pending |-> RequestAnimationFrame(pend, anim),
        animationRef |-> NewHandle(pend),
        lastUpdateTime |-> 0]
  ELSE [pending |-> CancelAnimationFrame(pend, ref),
        animationRef |-> ref,
        lastUpdateTime |-> last]

\* the three effects of the mount, in source order: the resize effect
\* (listener, updateCanvasSize), the draw effect, the isAnimating effect
RunEffects(nextPhase) ==
  LET cv == CanvasSize(container)
      eff == AnimatingEffect(isAnimating, pending, animationRef, lastUpdateTime)
  IN /\ phase' = nextPhase
     /\ resizeListeners' = resizeListeners \cup { [strains |-> strains, angle |-> angle] }
     /\ canvas' = cv
     /\ drawn' = Picture("effect", strains, angle, cv)
     /\ currentStrains' = calculateCurrentStrains(strains, angle)
     /\ pending' = eff.pending
     /\ animationRef' = eff.animationRef
     /\ lastUpdateTime' = eff.lastUpdateTime
     /\ period' = IF isAnimating THEN NewPeriod(angle) ELSE period
     /\ UNCHANGED <<isAnimating, strains, angle, container, now,
                    frames, idled, event>>

\* a development build under StrictMode goes on to clean up and re-run the
\* effects before anything else happens; a production build does not
MountEffects ==
  /\ phase = "rendered"
  /\ \E strict \in BOOLEAN : RunEffects(IF strict THEN "strict1" ELSE "mounted")

\* cleanups that leave the requested frame pending
RunCleanups_NoCancel(nextPhase) ==
  /\ phase' = nextPhase
  /\ resizeListeners' = {}
  /\ UNCHANGED <<isAnimating, strains, currentStrains, angle, pending,
                 animationRef, lastUpdateTime, container, canvas, drawn, now,
                 frames, period, idled, event>>

\* the cleanups of the effects: removeEventListener, cancelAnimationFrame
RunCleanups(nextPhase) ==
  /\ phase' = nextPhase
  /\ resizeListeners' = {}
  /\ pending' = CancelAnimationFrame(pending, animationRef)
  /\ UNCHANGED <<isAnimating, strains, currentStrains, angle,
                 animationRef, lastUpdateTime, container, canvas, drawn, now,
                 frames, period, idled, event>>

StrictCleanup == phase = "strict1" /\ RunCleanups("strict2")

StrictRemount == phase = "strict2" /\ RunEffects("mounted")

\* the host tears the component down: the cleanups run and React discards
\* the component's state and refs (a later mount would start from the
\* initial values again); the host's clock and frame queue live on
Unmount ==
  /\ phase = "mounted"
  /\ phase' = "unmounted"
  /\ resizeListeners' = {}
  /\ pending' = CancelAnimationFrame(pending, animationRef)
  /\ isAnimating' = TRUE
  /\ strains' = InitialStrains
  /\ currentStrains' = [normal |-> 0, shear |-> 0]
  /\ angle' = InitialAngle
  /\ animationRef' = 0
  /\ lastUpdateTime' = 0
  /\ canvas' = [width |-> 300, height |-> 150]
  /\ drawn' = NothingDrawn
  /\ period' = NewPeriod(InitialAngle)
  /\ idled' = FALSE
  /\ event' = NoEvent
  /\ UNCHANGED <<container, now, frames>>

(* ---------------------------- frame callback --------------------------- *)

\* lines 133-137 of animate
DeltaTime(last, timestamp) ==
  LET base == IF last = 0 THEN timestamp ELSE last
  IN timestamp - base

\* the updater without the reduction
NextAngle_NoWrap(prev, deltaTime) == prev + ANGLE_PER_MS * deltaTime

\* the updater passed to setAngle
NextAngle(prev, deltaTime) == JSRem(prev + ANGLE_PER_MS * deltaTime, TwoPi)

\* animate without the assignment of line 141: the baseline never moves
NextLastUpdate_Stale(last, timestamp) == IF last = 0 THEN timestamp ELSE last

\* lastUpdateTimeRef.current after animate
NextLastUpdate(last, timestamp) == timestamp

Animate(f, d, budget) ==
  LET timestamp == now + d
      rest == pending \ {f}
      newAngle == NextAngle(angle, DeltaTime(lastUpdateTime, timestamp))
  IN /\ f \in pending
     /\ timestamp <= MaxTime
     /\ frames < budget
     /\ now' = timestamp
     /\ frames' = frames + 1
     /\ IF ~f.isAnimating
        THEN /\ pending' = rest
             /\ UNCHANGED <<angle, lastUpdateTime, animationRef, drawn,
                            currentStrains, period>>
        ELSE IF phase = "unmounted"
        THEN \* the closure of a discarded component: only the host sees it
             /\ pending' = RequestAnimationFrame(rest, f.isAnimating)
             /\ UNCHANGED <<angle, lastUpdateTime, animationRef, drawn,
                            currentStrains, period>>
        ELSE /\ angle' = newAngle
             /\ lastUpdateTime' = NextLastUpdate(lastUpdateTime, timestamp)
             /\ animationRef' = NewHandle(rest)
             /\ pending' = RequestAnimationFrame(rest, f.isAnimating)
             /\ period' = [period EXCEPT
                             !.first = IF period.frames = 0 THEN timestamp ELSE @,
                             !.last = timestamp,
                             !.frames = Min(@ + 1, 3)]
             \* useEffect[angle, strains] of the render with the new angle
             /\ IF newAngle # angle
                THEN /\ drawn' = Picture("effect", strains, newAngle, canvas)
                     /\ currentStrains' = calculateCurrentStrains(strains, newAngle)
                ELSE UNCHANGED <<drawn, currentStrains>>
     /\ UNCHANGED <<phase, isAnimating, strains, container, canvas,
                    resizeListeners, idled, event>>

\* time passes while the sweep is paused and the host has no frame to run
Tick(d) ==
  /\ phase = "mounted"
  /\ ~isAnimating
  /\ pending = {}
  /\ now + d <= MaxTime
  /\ now' = now + d
  /\ idled' = TRUE
  /\ UNCHANGED <<phase, isAnimating, strains, currentStrains, angle,
                 animationRef, lastUpdateTime, container, canvas, drawn,
                 resizeListeners, pending, frames, period, event>>

(* ------------------------------ user events ---------------------------- *)

\* onClick of the button, the re-render, the effect's cleanup and the effect
TogglePlay ==
  LET anim == ~isAnimating
      cleaned == CancelAnimationFrame(pending, animationRef)
      eff == AnimatingEffect(anim, cleaned, animationRef, lastUpdateTime)
  IN /\ phase = "mounted"
     /\ isAnimating' = anim
     /\ pending' = eff.pending
     /\ animationRef' = eff.animationRef
     /\ lastUpdateTime' = eff.lastUpdateTime
     /\ period' = IF anim THEN NewPeriod(angle) ELSE period
     /\ idled' = (anim /\ idled)
     /\ UNCHANGED <<phase, strains, currentStrains, angle, container,
                    canvas, drawn, resizeListeners, now, frames, event>>

\* an updater that ignores a text that does not parse
handleInputChange_KeepOnNaN(prev, field, text) ==
  LET value == ParseFloat(text)
  IN [prev EXCEPT ![field] = IF value.nan THEN @ ELSE value.v]

\* the updater passed to setStrains
handleInputChange(prev, field, text) ==
  LET value == ParseFloat(text)
  IN [prev EXCEPT ![field] = IF value.nan THEN 0 ELSE value.v]

HandleInputChange(field, text) ==
  LET next == handleInputChange(strains, field, text)
  IN /\ phase = "mounted"
     /\ event' = [field |-> field, text |-> text]
     /\ strains' = next
     \* useEffect[angle, strains] of the render with the new strains
     /\ drawn' = Picture("effect", next, angle, canvas)
     /\ currentStrains' = calculateCurrentStrains(next, angle)
     /\ UNCHANGED <<phase, isAnimating, angle, animationRef,
                    lastUpdateTime, container, canvas, resizeListeners, pending,
                    now, frames, period, idled>>

\* a 'resize' event of the window: every registered updateCanvasSize runs,
\* each with the strains and angle of the render that created it
Resize(size) ==
  /\ phase = "mounted"
  /\ container' = size
  /\ IF resizeListeners = {}
     THEN UNCHANGED <<canvas, drawn, currentStrains>>
     ELSE LET cl == CHOOSE c \in resizeListeners : TRUE
              cv == CanvasSize(size)
          IN /\ canvas' = cv
             /\ drawn' = Picture("resize", cl.strains, cl.angle, cv)
             /\ currentStrains' = calculateCurrentStrains(cl.strains, cl.angle)
  /\ UNCHANGED <<phase, isAnimating, strains, angle, animationRef,
                 lastUpdateTime, resizeListeners, pending, now, frames, period,
                 idled, event>>

(* ---------------------------- specification ---------------------------- *)

Next ==
  \/ MountEffects
  \/ StrictCleanup
  \/ StrictRemount
  \/ Unmount
  \/ \E f \in pending : \E d \in FrameDeltas : Animate(f, d, MaxFrames)
  \/ \E d \in IdleDeltas : Tick(d)
  \/ TogglePlay
  \/ \E field \in Fields : \E text \in EditTexts : HandleInputChange(field, text)
  \/ \E size \in ContainerSizes : Resize(size)

Spec == Init /\ [][Next]_vars

\* the sweep alone: no strain field is edited, more frames run
NextSweep ==
  \/ MountEffects
  \/ StrictCleanup
  \/ StrictRemount
  \/ Unmount
  \/ \E f \in pending : \E d \in FrameDeltas : Animate(f, d, SweepFrames)
  \/ \E d \in IdleDeltas : Tick(d)
  \/ TogglePlay
  \/ \E size \in ContainerSizes : Resize(size)

SpecSweep == Init /\ [][NextSweep]_vars


(* ------------------------------ properties ----------------------------- *)

\* time between the first and the last frame of the current playing period
Elapsed == period.last - period.first

\* C1: pausing then resuming introduces no jump: until the second frame
\* callback after the effect's request has run, the angle is the one held
\* when the request was made, however long the pause was.
C1_NoJumpOnResume ==
  (phase = "mounted" /\ isAnimating /\ period.frames <= 1) => angle = period.angle

\* a sweep that had advanced, was paused while time passed, was resumed and
\* has run its first frame callback
C1_Witness ==
  /\ phase = "mounted" /\ isAnimating /\ idled
  /\ period.frames = 1
  /\ period.first > MountTime + 20000
  /\ angle # InitialAngle

\* C2: the redraw run by the resize handler draws the point for, and
\* publishes the CurrentStrainPair of, the current StrainInput and angle.
C2_ResizeDrawsCurrent ==
  drawn.by = "resize" =>
    /\ drawn = Picture("resize", strains, angle, canvas)
    /\ currentStrains = calculateCurrentStrains(strains, angle)

\* C3 as stated: the angle lies in [0, 2*pi) in every reachable state.
C3_Original == angle >= 0 /\ angle < TwoPi

\* C3 amended: the angle lies in [seed, 2*pi), the seed being negative.
C3_AngleRange == angle >= InitialAngle /\ angle < TwoPi

\* the angle is still negative after a frame has advanced it
C3_Witness == phase = "mounted" /\ angle < 0 /\ angle > InitialAngle

\* C4 as stated: after frames whose elapsed time totals 30000 ms the angle
\* equals the angle before the advance.
C4_Original ==
  (period.frames >= 1 /\ Elapsed = CIRCLE_DURATION) => angle = period.angle

\* C4 amended: after 30000 ms the angle equals the angle before the advance
\* when that was non-negative, and that angle plus 2*pi when it was negative.
C4_FullRevolution ==
  (period.frames >= 1 /\ Elapsed = CIRCLE_DURATION) =>
    angle = IF period.angle < 0 THEN period.angle + TwoPi ELSE period.angle

\* a full revolution from a non-negative angle
C4_Witness ==
  /\ period.frames >= 2 /\ Elapsed = CIRCLE_DURATION
  /\ period.angle >= 0 /\ angle = period.angle

\* C5 as stated: the angle of a playing period is the start angle plus the
\* elapsed time times 2*pi/30000, reduced into [0, 2*pi).
C5_Original ==
  (phase = "mounted" /\ period.frames >= 1) =>
    angle = (period.angle + Elapsed * (TwoPi \div CIRCLE_DURATION)) % TwoPi

\* C5 amended: the angle of a playing period depends only on its first and
\* last frame timestamps: it is the start angle plus the elapsed time times
\* 2*pi/30000, reduced by the sign-preserving remainder.
C5_ElapsedOnly ==
  (phase = "mounted" /\ period.frames >= 1) =>
    angle = JSRem(period.angle + Elapsed * (TwoPi \div CIRCLE_DURATION), TwoPi)

\* 30000 ms covered by three frame callbacks (a single later frame covers
\* the same span with two)
C5_Witness ==
  /\ phase = "mounted" /\ period.frames = 3 /\ Elapsed = CIRCLE_DURATION
  /\ angle # period.angle

\* C6: while paused, and after teardown, no frame callback is pending.
C6_NoPendingWhenStopped ==
  (phase = "unmounted" \/ (phase = "mounted" /\ ~isAnimating)) => pending = {}

\* paused after the sweep had advanced, with an edit and a resize since
C6_Witness ==
  /\ phase = "mounted" /\ ~isAnimating /\ pending = {}
  /\ angle # InitialAngle
  /\ event.field \in Fields
  /\ drawn.by = "resize"

\* the number each text stands for ("abc" is no number and yields 0)
C7_Expected(text) ==
  CASE text = <<"a", "b", "c">> -> 0
    [] text = <<"3", ".", "5">> -> 3500

\* C7: an edit sets the edited field to the parsed number, or to 0 when the
\* text does not parse, leaves the other two fields alone and leaves every
\* field a number.
C7_EditOneField ==
  [][(event' # event /\ event'.field \in Fields) =>
       /\ strains'[event'.field] = C7_Expected(event'.text)
       /\ \A g \in Fields \ {event'.field} : strains'[g] = strains[g]
       /\ \A g \in Fields : strains'[g] \in Int]_vars

\* "abc" has been typed into normalY after "3.5" into normalX
C7_Witness ==
  /\ event = [field |-> "normalY", text |-> <<"a", "b", "c">>]
  /\ strains = [normalX |-> 3500, normalY |-> 0, shearXY |-> 905]

\* C8: a resize changes only the width and height of the surface (and the
\* picture redrawn on it).
C8_ResizeFrame ==
  [][(phase = "mounted" /\ phase' = "mounted" /\ canvas' # canvas) =>
       UNCHANGED <<strains, angle, isAnimating, currentStrains, animationRef,
                   lastUpdateTime, pending, resizeListeners, period, event>>]_vars

\* C9: with normalX = normalY and shearXY = 0 the radius is 0 and the
\* strain pair is (center, 0) at every angle.
C9_Degenerate ==
  (strains.normalX = strains.normalY /\ strains.shearXY = 0) =>
    /\ calculateMohrCircle(strains).radius = 0
    /\ \A a \in {angle, 0, TwoPi \div 4, TwoPi \div 3, 0 - 595} :
         calculateCurrentStrains(strains, a) =
           [normal |-> strains.normalX, shear |-> 0]

\* a degenerate circle away from the origin
C9_Witness ==
  /\ phase = "mounted"
  /\ strains = [normalX |-> 3500, normalY |-> 3500, shearXY |-> 0]

\* C10: at most one frame callback is pending at any time.
C10_AtMostOnePending == Cardinality(pending) <= 1

\* a frame is pending after a pause and a resume
C10_Witness ==
  /\ phase = "mounted" /\ isAnimating /\ idled
  /\ Cardinality(pending) = 1
  /\ frames >= 1

====
